---- MODULE Spec2Model ----
(***************************************************************************)
(* HpiLibrary (src/src/HpiLibrary/__init__.py, utils.py): the connection   *)
(* and selection state machine of the Robot Framework HPI keyword library. *)
(*                                                                         *)
(* The library keeps                                                       *)
(*   - a robot.utils.connectioncache.ConnectionCache (self._cache): the    *)
(*     list of registered sessions, the alias table and the current entry; *)
(*   - self._active_session: the session every keyword talks to (self._s)  *)
(*     and the key of the per-connection storage;                          *)
(*   - self._cp_storage: session -> dict of selections (PerConnection-     *)
(*     Storage), reached only through the _cp property.                    *)
(*                                                                         *)
(* One action is one keyword call, run to completion.  The three           *)
(* Wait Until ... keywords are loops and take one step per loop iteration; *)
(* no other keyword runs while a wait is in progress (pc # "idle").        *)
(*                                                                         *)
(* ConnectionCache is the Robot Framework class the library instantiates   *)
(* at __init__.py:34.  Its operations are modelled at the places the       *)
(* library calls them, with the behaviour of that class:                   *)
(*   register(c, alias): current = c; append c; index = len(connections);  *)
(*                       aliases[alias] = index when alias is a string;    *)
(*   switch(x):          current = connections[resolve(x) - 1], where an   *)
(*                       alias is looked up first and then an index with   *)
(*                       0 < index <= len(connections); RuntimeError       *)
(*                       otherwise;                                        *)
(*   current_index:      None when current is the no-connection sentinel,  *)
(*                       else the position of current in connections;      *)
(*   close_all():        calls close() on every connection in order, then  *)
(*                       empty_cache(), then returns self.current, which   *)
(*                       is by then the NoConnection sentinel object (not  *)
(*                       None): an object that is false in a boolean test  *)
(*                       and raises on every attribute access.             *)
(***************************************************************************)
EXTENDS Integers, Sequences, FiniteSets, TLC

(***************************************************************************)
(* Bounds of the model.                                                    *)
(***************************************************************************)
MaxSessions == 3      \* Session objects created over a run
MaxCloseCalls == 2    \* close() calls recorded per session
MaxRdrs == 3          \* records of a resource
MaxTime == 4          \* clock ticks observed
MaxTimeout == 2       \* largest configured timeout
MaxSelections == 3    \* selections held by the storage, all scopes together
MaxScopes == 2        \* sessions opened where the selections are explored
MaxPolls == 3         \* polls of one event wait that do not end it
MaxTokenLen == 3      \* characters of a parameter token
MaxParams == 2        \* parameter tokens of one Start Test call
MaxNameLen == 3       \* characters of a token given to the name resolver

(***************************************************************************)
(* Values.  Sessions are the integers 1..MaxSessions, in creation order.   *)
(***************************************************************************)
None == 0             \* Python None
NoConnection == -1    \* the cache's no-connection sentinel object

Sessions == 1..MaxSessions

Aliases == {"a"}

NoAlias == ""         \* alias=None of open_hpi_connection

\* The keys of a selection scope.
KEYS == {"entity_path", "selected_rdr", "selected_fumi_bank",
         "selected_dimi_test", "selected_event", "fumi_number", "dimi_number"}

VARIABLES
    cache_connections,  \* ConnectionCache._connections: sequence of sessions
    cache_aliases,      \* ConnectionCache._aliases: alias -> index
    cache_current,      \* ConnectionCache.current: a session or NoConnection
    active_session,     \* HpiLibrary._active_session: None, session, NoConnection
    active_device,      \* HpiLibrary._active_device, written by switch only
    cp_storage,         \* PerConnectionStorage._cp_storage: handle -> scope
    timeout,            \* HpiLibrary._timeout
    poll_interval,      \* HpiLibrary._poll_interval
    nextSession,        \* number of Session objects created and opened so far
    closeCalls,         \* session -> number of close() calls it received
    rdrs,               \* the records res.rdrs() of a resource, in order
    now,                \* time.time()
    pc,                 \* "idle", or the position inside a wait loop
    wait,               \* the local variables of the wait in progress
    last,               \* the last keyword call: its name, input and outcome
    everSet,            \* history: handle -> keys written while it was active
    opensSinceReset     \* history: successful opens since start / close-all

vars == <<cache_connections, cache_aliases, cache_current, active_session,
          active_device, cp_storage, timeout, poll_interval, nextSession,
          closeCalls, rdrs, now, pc, wait, last, everSet, opensSinceReset>>

cacheVars == <<cache_connections, cache_aliases, cache_current>>
envVars == <<rdrs, now>>
waitVars == <<pc, wait>>
confVars == <<timeout, poll_interval>>

(***************************************************************************)
(* The record of the last keyword call: the keyword, its argument, how it  *)
(* ended ("ok" or the error raised) and what it returned.                  *)
(***************************************************************************)
Result(kw, arg, outcome, ret) ==
    [kw |-> kw, arg |-> arg, outcome |-> outcome, ret |-> ret]

(***************************************************************************)
(* PerConnectionStorage (utils.py).                                        *)
(***************************************************************************)
EmptyScope == [k \in {} |-> None]

\* _cp, lines 34-38: the error it raises for the active connection a.
\* hasattr(self, '_active_session') is true from __init__ on.
CpError(a) == IF a = None THEN "NoConnectionActive" ELSE "ok"

\* A storage whose new scope starts as a copy of an existing one.
CpStorage_CopiesScope(st, a) ==
    IF a \in DOMAIN st
    THEN st
    ELSE [h \in DOMAIN st \cup {a} |->
             IF h # a THEN st[h]
             ELSE IF DOMAIN st = {} THEN EmptyScope
             ELSE st[CHOOSE x \in DOMAIN st : TRUE]]

\* _cp, lines 39-41: the storage once _cp has returned a's scope.
CpStorage(st, a) ==
    IF a \in DOMAIN st
    THEN st
    ELSE [h \in DOMAIN st \cup {a} |-> IF h = a THEN EmptyScope ELSE st[h]]

\* A storage whose scopes are one shared dict: the write shows in all.
CpSetItem_SharedScope(st, a, key, v) ==
    LET s1 == CpStorage(st, a)
    IN  [h \in DOMAIN s1 |-> [k \in DOMAIN s1[h] \cup {key} |->
                                 IF k = key THEN v ELSE s1[h][k]]]

\* self._cp[key] = v
CpSetItem(st, a, key, v) ==
    LET s1 == CpStorage(st, a)
    IN  [s1 EXCEPT ![a] = [k \in DOMAIN s1[a] \cup {key} |->
                              IF k = key THEN v ELSE s1[a][k]]]

\* self._cp[key] raises KeyError
CpUnset(st, a, key) == key \notin DOMAIN CpStorage(st, a)[a]

\* self._cp[key]
CpGetItem(st, a, key) == CpStorage(st, a)[a][key]

(***************************************************************************)
(* ConnectionCache, as the library uses it.                                *)
(***************************************************************************)
\* ConnectionCache.current_index, read at __init__.py:92
CurrentIndex(conns, cur) ==
    IF cur = NoConnection
    THEN None
    ELSE CHOOSE i \in 1..Len(conns) :
            conns[i] = cur /\ \A j \in 1..(i - 1) : conns[j] # cur

\* The inputs of Switch HPI Connection: an index or an alias string.
SwitchArgs ==
    [kind : {"index"}, index : 0..(MaxSessions + 1), alias : {NoAlias}]
    \cup [kind : {"alias"}, index : {0}, alias : Aliases]

\* ConnectionCache._resolve_alias_or_index: the index, or 0 for ValueError.
\* An alias is looked up first; the aliases of the model are not numerals,
\* so an index never names an alias.
ResolveAliasOrIndex(x, conns, als) ==
    IF x.kind = "alias"
    THEN IF x.alias \in DOMAIN als THEN als[x.alias] ELSE 0
    ELSE IF 0 < x.index /\ x.index <= Len(conns) THEN x.index ELSE 0

\* ConnectionCache.register: the alias table after registering at index.
RegisterAlias(als, alias, index) ==
    IF alias = NoAlias
    THEN als
    ELSE [a \in DOMAIN als \cup {alias} |->
             IF a = alias THEN index ELSE als[a]]

\* ConnectionCache.register: the index it returns, given the list after
\* the append.
RegisterIndex(conns) == Len(conns)

\* An empty_cache that forgets the current entry but keeps the list.
EmptyCacheConnections_KeepsList(conns) == conns

\* ConnectionCache.empty_cache: the connection list it leaves.
EmptyCacheConnections(conns) == << >>

\* A switch that reads current_index after switching.
SwitchReturn_NewIndex(old_index, new_index) == new_index

\* The value switch_hpi_connection returns (lines 92, 94).
SwitchReturn(old_index, new_index) == old_index

\* The sessions close_all() calls close() on when the k-th close raises
\* (k = Len(conns) + 1: none raises).
ClosedBy(conns, k) == {conns[i] : i \in 1..(IF k > Len(conns) THEN Len(conns) ELSE k)}

(***************************************************************************)
(* Connection keywords.                                                    *)
(***************************************************************************)
Idle == pc = "idle"

\* open_hpi_connection(host, port, alias), Session() opened and attached.
OpenHpiConnection(alias) ==
    /\ Idle
    /\ nextSession < MaxSessions
    /\ LET session == nextSession + 1
           conns == Append(cache_connections, session)
           index == RegisterIndex(conns)
       IN  /\ nextSession' = session
           /\ active_session' = session
           /\ cache_current' = session
           /\ cache_connections' = conns
           /\ cache_aliases' = RegisterAlias(cache_aliases, alias, index)
           /\ last' = Result("open", None, "ok", index)
    /\ opensSinceReset' = opensSinceReset + 1
    /\ UNCHANGED <<active_device, cp_storage, closeCalls, everSet,
                   confVars, envVars, waitVars>>

\* An open that makes the new session the active one before it opens it.
OpenHpiConnectionFails_ActivatesFirst(alias, error) ==
    /\ Idle
    /\ nextSession < MaxSessions
    /\ nextSession' = nextSession + 1
    /\ active_session' = nextSession + 1
    /\ last' = Result("open", None, error, None)
    /\ UNCHANGED <<cacheVars, active_device, cp_storage,
                   closeCalls, everSet, opensSinceReset,
                   confVars, envVars, waitVars>>

\* open_hpi_connection where int(port), session.open() or
\* session.attach_event_listener() raises: lines 68-77 do not complete.
OpenHpiConnectionFails(alias, error) ==
    /\ Idle
    /\ last' = Result("open", None, error, None)
    /\ UNCHANGED <<cacheVars, active_session, active_device, cp_storage,
                   nextSession, closeCalls, everSet, opensSinceReset,
                   confVars, envVars, waitVars>>

\* switch_hpi_connection(index_or_alias)
SwitchHpiConnection(x) ==
    /\ Idle
    /\ LET old_index == CurrentIndex(cache_connections, cache_current)
           index == ResolveAliasOrIndex(x, cache_connections, cache_aliases)
       IN  IF index = 0
           THEN /\ last' = Result("switch", x, "NonExistingIndexOrAlias", None)
                /\ UNCHANGED <<cache_current, active_device>>
           ELSE /\ cache_current' = cache_connections[index]
                /\ active_device' = cache_connections[index]
                /\ last' = Result("switch", x, "ok",
                                  SwitchReturn(old_index, index))
    /\ UNCHANGED <<cache_connections, cache_aliases, active_session,
                   cp_storage, nextSession, closeCalls, everSet,
                   opensSinceReset, confVars, envVars, waitVars>>

\* A close that also makes the library forget the session it closed.
CloseHpiConnection_Deactivates(raises) ==
    /\ Idle
    /\ active_session \in Sessions
    /\ closeCalls[active_session] < MaxCloseCalls
    /\ closeCalls' = [closeCalls EXCEPT ![active_session] = @ + 1]
    /\ active_session' = None
    /\ last' = Result("close", None, IF raises THEN "SaHpiError" ELSE "ok", None)
    /\ UNCHANGED <<cacheVars, active_device, cp_storage,
                   nextSession, everSet, opensSinceReset,
                   confVars, envVars, waitVars>>

\* close_hpi_connection(): self._active_session.close(); raises tells
\* whether the transport's close() raised.
CloseHpiConnection(raises) ==
    /\ Idle
    /\ IF active_session = None
       THEN /\ ~raises
            /\ last' = Result("close", None, "AttributeError", None)
            /\ UNCHANGED closeCalls
       ELSE IF active_session = NoConnection
       THEN /\ ~raises
            /\ last' = Result("close", None, "NoOpenConnection", None)
            /\ UNCHANGED closeCalls
       ELSE /\ closeCalls[active_session] < MaxCloseCalls
            /\ closeCalls' = [closeCalls EXCEPT ![active_session] = @ + 1]
            /\ last' = Result("close", None,
                              IF raises THEN "SaHpiError" ELSE "ok", None)
    /\ UNCHANGED <<cacheVars, active_session, active_device, cp_storage,
                   nextSession, everSet, opensSinceReset,
                   confVars, envVars, waitVars>>

\* close_all_hpi_connections(), every close() returning
CloseAllHpiConnections ==
    /\ Idle
    /\ \A s \in ClosedBy(cache_connections, Len(cache_connections) + 1) :
          closeCalls[s] < MaxCloseCalls
    /\ closeCalls' = [s \in Sessions |->
          IF s \in ClosedBy(cache_connections, Len(cache_connections) + 1)
          THEN closeCalls[s] + 1 ELSE closeCalls[s]]
    /\ cache_current' = NoConnection
    /\ cache_connections' = EmptyCacheConnections(cache_connections)
    /\ cache_aliases' = EmptyScope
    /\ active_session' = NoConnection
    /\ last' = Result("close_all", None, "ok", None)
    /\ opensSinceReset' = 0
    /\ UNCHANGED <<active_device, cp_storage, nextSession, everSet,
                   confVars, envVars, waitVars>>

\* close_all_hpi_connections() where the close() of the k-th connection
\* raises: the loop of close_all() stops there, the cache is not emptied
\* and line 110 assigns nothing.
CloseAllHpiConnectionsFails(k) ==
    /\ Idle
    /\ k \in 1..Len(cache_connections)
    /\ \A s \in ClosedBy(cache_connections, k) : closeCalls[s] < MaxCloseCalls
    /\ closeCalls' = [s \in Sessions |->
          IF s \in ClosedBy(cache_connections, k)
          THEN closeCalls[s] + 1 ELSE closeCalls[s]]
    /\ last' = Result("close_all", None, "SaHpiError", None)
    /\ UNCHANGED <<cacheVars, active_session, active_device, cp_storage,
                   nextSession, everSet, opensSinceReset,
                   confVars, envVars, waitVars>>

(***************************************************************************)
(* The device behind a session, as the selection keywords see it.          *)
(* Every session exposes no resource at entity path P0, one at P1 and two  *)
(* at P2; every resource carries the records rdrs.                         *)
(***************************************************************************)
EntityPaths == {"P0", "P1", "P2"}

\* The strings given to Set Entity Path; "bad" is not an entity path.
EntityPathStrings == EntityPaths \cup {"bad"}

RdrTypes == {"FumiRdr", "DimiRdr"}

RdrIds == {"a", "b"}

EventTypes == {"FUMI", "DIMI"}

\* EntityPath().from_string(ep) raises ValueError
FromStringFails(ep) == ep \notin EntityPaths

\* self._s.get_resources_by_entity_path(path)
ResourcesByEntityPath(session, path) ==
    LET n == IF path = "P0" THEN 0 ELSE IF path = "P1" THEN 1 ELSE 2
    IN  [i \in 1..n |-> [session |-> session, path |-> path, n |-> i]]

\* The stored object for the record at position pos of res.rdrs()
Rdr(recs, pos) ==
    [rdr_type |-> recs[pos].rdr_type, id_string |-> recs[pos].id_string,
     pos |-> pos]

\* int(number) raises ValueError
IntFails(number) == number \notin {"0", "1"}

(***************************************************************************)
(* Selection helpers of HpiLibrary.                                        *)
(***************************************************************************)
\* The storage after an access to self._cp, which creates the scope of the
\* active connection when _cp does not raise.
AfterCp(st, a) == IF CpError(a) = "ok" THEN CpStorage(st, a) ELSE st

\* A check that rejects only the ambiguous case.
ResourceCountOk_AtMostOne(n) == n <= 1

\* The resource count _selected_resource accepts (line 125)
ResourceCountOk(n) == n = 1

\* _selected_resource(): the error it raises, "ok" when it returns
SelectedResourceError(st, a) ==
    IF CpError(a) # "ok" THEN CpError(a)
    ELSE IF CpUnset(st, a, "entity_path") THEN "KeyError"
    ELSE IF a = NoConnection THEN "NoOpenConnection"
    ELSE IF ~ResourceCountOk(
              Len(ResourcesByEntityPath(a, CpGetItem(st, a, "entity_path"))))
         THEN "ResourceCount"
    ELSE "ok"

\* _selected_resource(): the resource it returns
SelectedResource(st, a) ==
    ResourcesByEntityPath(a, CpGetItem(st, a, "entity_path"))[1]

\* A search that keeps the last match instead of returning at the first.
FindRdr_LastMatch(recs, rdr_type, id) ==
    IF \E i \in 1..Len(recs) :
          recs[i].rdr_type = rdr_type /\ recs[i].id_string = id
    THEN CHOOSE i \in 1..Len(recs) :
            /\ recs[i].rdr_type = rdr_type /\ recs[i].id_string = id
            /\ \A j \in (i + 1)..Len(recs) :
                  ~(recs[j].rdr_type = rdr_type /\ recs[j].id_string = id)
    ELSE 0

\* _find_rdr, lines 132-138: the position of the record returned, 0 for None
FindRdr(recs, rdr_type, id) ==
    IF \E i \in 1..Len(recs) :
          recs[i].rdr_type = rdr_type /\ recs[i].id_string = id
    THEN CHOOSE i \in 1..Len(recs) :
            /\ recs[i].rdr_type = rdr_type /\ recs[i].id_string = id
            /\ \A j \in 1..(i - 1) :
                  ~(recs[j].rdr_type = rdr_type /\ recs[j].id_string = id)
    ELSE 0

\* The number of selections a storage holds.
RECURSIVE Selections(_, _)
Selections(st, handles) ==
    IF handles = {}
    THEN 0
    ELSE LET h == CHOOSE x \in handles : TRUE
         IN  Cardinality(DOMAIN st[h]) + Selections(st, handles \ {h})

WithinBounds(st) == Selections(st, DOMAIN st) <= MaxSelections

\* The part every selection keyword shares: the record of the call, the
\* storage it leaves and the keys it assigned in the active scope.
Keyword(kw, arg, outcome, st, written) ==
    /\ Idle
    /\ WithinBounds(st)
    /\ last' = Result(kw, arg, outcome, None)
    /\ cp_storage' = st
    /\ everSet' = IF written = {}
                  THEN everSet
                  ELSE [everSet EXCEPT ![active_session] = @ \cup written]
    /\ UNCHANGED <<cacheVars, active_session, active_device, nextSession,
                   closeCalls, opensSinceReset, confVars, envVars, waitVars>>

(***************************************************************************)
(* Selection keywords.                                                     *)
(***************************************************************************)
\* A Set Entity Path that starts the scope afresh: the selections made on
\* the former resource are dropped with it.
SetEntityPath_ResetsSelections(ep) ==
    IF FromStringFails(ep)
    THEN Keyword("set_entity_path", ep, "InvalidEntityPath", cp_storage, {})
    ELSE IF CpError(active_session) # "ok"
    THEN Keyword("set_entity_path", ep, CpError(active_session),
                 cp_storage, {})
    ELSE Keyword("set_entity_path", ep, "ok",
                 [CpStorage(cp_storage, active_session)
                     EXCEPT ![active_session] = [k \in {"entity_path"} |-> ep]],
                 {"entity_path"})

\* set_entity_path(ep)
SetEntityPath(ep) ==
    IF FromStringFails(ep)
    THEN Keyword("set_entity_path", ep, "InvalidEntityPath", cp_storage, {})
    ELSE IF CpError(active_session) # "ok"
    THEN Keyword("set_entity_path", ep, CpError(active_session),
                 cp_storage, {})
    ELSE Keyword("set_entity_path", ep, "ok",
                 CpSetItem(cp_storage, active_session, "entity_path", ep),
                 {"entity_path"})

\* set_fumi_number(number)
SetFumiNumber(number) ==
    IF CpError(active_session) # "ok"
    THEN Keyword("set_fumi_number", None, CpError(active_session),
                 cp_storage, {})
    ELSE Keyword("set_fumi_number", None, "ok",
                 CpSetItem(cp_storage, active_session, "fumi_number", number),
                 {"fumi_number"})

\* set_dimi_number(number)
SetDimiNumber(number) ==
    IF CpError(active_session) # "ok"
    THEN Keyword("set_dimi_number", None, CpError(active_session),
                 cp_storage, {})
    ELSE Keyword("set_dimi_number", None, "ok",
                 CpSetItem(cp_storage, active_session, "dimi_number", number),
                 {"dimi_number"})

\* _rdr_should_exist(rdr_type, id): fumi_rdr_should_exist, select_fumi_rdr,
\* dimi_rdr_should_exist, select_dimi_rdr
RdrShouldExist(rdr_type, id) ==
    LET a == active_session
        arg == [rdr_type |-> rdr_type, id |-> id]
        err == SelectedResourceError(cp_storage, a)
        pos == FindRdr(rdrs, rdr_type, id)
    IN  IF err # "ok"
        THEN Keyword("rdr_should_exist", arg, err, AfterCp(cp_storage, a), {})
        ELSE IF pos = 0
        THEN Keyword("rdr_should_exist", arg, "RdrNotFound",
                     AfterCp(cp_storage, a), {})
        ELSE Keyword("rdr_should_exist", arg, "ok",
                     CpSetItem(cp_storage, a, "selected_rdr", Rdr(rdrs, pos)),
                     {"selected_rdr"})

\* The inputs of the bank selection: select_logical_bank(), or
\* select_bank_number(number) with a numeral or another string.
BankArgs == {"logical", "0", "1", "x"}

\* select_logical_bank() and select_bank_number(number); raises tells
\* whether res.fumi_handler_by_rdr, fumi.logical_bank or fumi.bank raised.
SelectBank(number, raises) ==
    LET a == active_session
        err == SelectedResourceError(cp_storage, a)
    IN  IF number # "logical" /\ IntFails(number)
        THEN /\ ~raises
             /\ Keyword("select_bank", number, "ValueError", cp_storage, {})
        ELSE IF err # "ok"
        THEN /\ ~raises
             /\ Keyword("select_bank", number, err, AfterCp(cp_storage, a), {})
        ELSE IF CpUnset(cp_storage, a, "selected_rdr")
        THEN /\ ~raises
             /\ Keyword("select_bank", number, "KeyError", cp_storage, {})
        ELSE IF raises
        THEN Keyword("select_bank", number, "SaHpiError", cp_storage, {})
        ELSE Keyword("select_bank", number, "ok",
                     CpSetItem(cp_storage, a, "selected_fumi_bank",
                         [resource |-> SelectedResource(cp_storage, a),
                          rdr |-> CpGetItem(cp_storage, a, "selected_rdr"),
                          bank |-> number]),
                     {"selected_fumi_bank"})

\* select_test(number); raises tells whether res.dimi_handler_by_rdr or
\* dimi.get_test_by_num raised.
SelectTest(number, raises) ==
    LET a == active_session
        err == SelectedResourceError(cp_storage, a)
    IN  IF IntFails(number)
        THEN /\ ~raises
             /\ Keyword("select_test", number, "ValueError", cp_storage, {})
        ELSE IF err # "ok"
        THEN /\ ~raises
             /\ Keyword("select_test", number, err, AfterCp(cp_storage, a), {})
        ELSE IF CpUnset(cp_storage, a, "selected_rdr")
        THEN /\ ~raises
             /\ Keyword("select_test", number, "KeyError", cp_storage, {})
        ELSE IF raises
        THEN Keyword("select_test", number, "SaHpiError", cp_storage, {})
        ELSE Keyword("select_test", number, "ok",
                     CpSetItem(cp_storage, a, "selected_dimi_test",
                         [resource |-> SelectedResource(cp_storage, a),
                          rdr |-> CpGetItem(cp_storage, a, "selected_rdr"),
                          test |-> number]),
                     {"selected_dimi_test"})

(***************************************************************************)
(* Keywords that read one selection and then talk to the device.  What the *)
(* device answers once the selection is read is not the library's: rest is *)
(* the outcome of that part: "ok", or "Failure" for a comparison that     *)
(* fails (AssertionError) or a device call that raises (SaHpiError).       *)
(***************************************************************************)
DeviceOutcomes == {"ok", "Failure"}

\* A keyword whose first statement is self._cp[key]
ReadKeyword(kw, key, rest) ==
    LET a == active_session
    IN  IF CpError(a) # "ok"
        THEN /\ rest = "ok"
             /\ Keyword(kw, None, CpError(a), cp_storage, {})
        ELSE IF CpUnset(cp_storage, a, key)
        THEN /\ rest = "ok"
             /\ Keyword(kw, None, "KeyError", AfterCp(cp_storage, a), {})
        ELSE Keyword(kw, None, rest, cp_storage, {})

\* product_id_of_selected_resource_should_be and
\* manufacturer_id_of_selected_resource_should_be, given a numeral
ResourceInfoShouldBe(rest) ==
    LET a == active_session
        err == SelectedResourceError(cp_storage, a)
    IN  IF err # "ok"
        THEN /\ rest = "ok"
             /\ Keyword("resource_info_should_be", None, err,
                        AfterCp(cp_storage, a), {})
        ELSE Keyword("resource_info_should_be", None, rest,
                     cp_storage, {})

\* access_protocol_/capabilities_/number_of_banks_of_selected_rdr_should_be,
\* dimi_number_of_selected_rdr_should_be: rdr = self._selected_rdr() first
SelectedRdrShouldBe(rest) ==
    ReadKeyword("selected_rdr_should_be", "selected_rdr", rest)

\* set_source, start_validation, start_installation, cancel_upgrade,
\* cleanup, *_of_selected_bank_should_be: self._selected_fumi_bank() first
UseSelectedBank(rest) ==
    ReadKeyword("use_selected_bank", "selected_fumi_bank", rest)

\* cancel_test, name_of_selected_test_should_be,
\* selected_test_should_have_parameter: self._cp['selected_dimi_test'] first
UseSelectedTest(rest) ==
    ReadKeyword("use_selected_test", "selected_dimi_test", rest)

\* upgrade_state_of_fumi_event_should_be (event_type "FUMI") and
\* test_status_of_dimi_event_should_be (event_type "DIMI"), given a state
\* or status name that resolves
EventShouldBe(event_type, rest) ==
    LET a == active_session
    IN  IF /\ CpError(a) = "ok"
           /\ ~CpUnset(cp_storage, a, "selected_event")
           /\ CpGetItem(cp_storage, a, "selected_event").event_type
                 # event_type
        THEN /\ rest = "ok"
             /\ Keyword("event_should_be", None,
                        "EventNotOfType", cp_storage, {})
        ELSE ReadKeyword("event_should_be", "selected_event", rest)

(***************************************************************************)
(* wait_until_event_queue_contains_event_type(event_type, may_fail).       *)
(* Time passes inside listener.get(timeout) and time.sleep only.           *)
(***************************************************************************)
NoWait == [kw |-> "none", event_type |-> "", may_fail |-> FALSE,
           start_time |-> 0, end_time |-> 0, timeout |-> 0]

\* What a wait has done so far, kept as ret in the record of the call (a
\* wait returns nothing): the result of every poll attempt in order
\* ("raise" for a transport error, "target" for the value waited for,
\* "other", "none") and the number of time.sleep(self._poll_interval)
\* calls.
NoPolls == [polls |-> << >>, sleeps |-> 0]

\* The record of the call after one more poll attempt, followed by slept
\* sleeps (0 or 1).
Polled(l, result, slept) ==
    [l EXCEPT !.ret = [polls |-> Append(@.polls, result),
                       sleeps |-> @.sleeps + slept]]

\* A wait that propagates the transport error in either mode.
Tolerates_Never(may_fail) == FALSE

\* A wait that swallows the transport error in either mode.
Tolerates_Always(may_fail) == TRUE

\* The test of lines 199 and 373: the error of a poll is swallowed.
Tolerates(may_fail) == may_fail

\* The names given as event_type; "nosuch" names no SAHPI_ET_ constant.
EventTypeNames == EventTypes \cup {"nosuch"}

\* Lines 188-192: up to the first test of the loop condition.
WaitEventStart(event_type, may_fail) ==
    /\ Idle
    /\ LET arg == [event_type |-> event_type, may_fail |-> may_fail]
       IN  IF active_session = None
           THEN /\ last' = Result("wait_event", arg, "AttributeError", NoPolls)
                /\ UNCHANGED waitVars
           ELSE IF active_session = NoConnection
           THEN /\ last' = Result("wait_event", arg, "NoOpenConnection", NoPolls)
                /\ UNCHANGED waitVars
           ELSE IF event_type \notin EventTypes
           THEN /\ last' = Result("wait_event", arg, "AttributeNotFound", NoPolls)
                /\ UNCHANGED waitVars
           ELSE /\ last' = Result("wait_event", arg, "running", NoPolls)
                /\ pc' = "event_loop"
                /\ wait' = [kw |-> "wait_event", event_type |-> event_type,
                            may_fail |-> may_fail, start_time |-> now,
                            end_time |-> now + timeout,
                            timeout |-> (now + timeout) - now]
    /\ UNCHANGED <<cacheVars, active_session, active_device, cp_storage,
                   nextSession, closeCalls, everSet, opensSinceReset,
                   confVars, envVars>>

\* The loop condition of line 193
WaitEventCondition(w, t) == w.timeout > 0

\* The wait returns or raises: the record l of the call is completed.
WaitEnds(l, outcome) ==
    /\ last' = [l EXCEPT !.outcome = outcome]
    /\ pc' = "idle"
    /\ wait' = NoWait

\* Line 193 is false: lines 208-209 raise the AssertionError.
WaitEventTimeout ==
    /\ pc = "event_loop"
    /\ ~WaitEventCondition(wait, now)
    /\ WaitEnds(last, "Timeout")
    /\ UNCHANGED <<cacheVars, active_session, active_device, cp_storage,
                   nextSession, closeCalls, everSet, opensSinceReset,
                   confVars, envVars>>

\* listener.get(timeout) returns an event of type t after d ticks.
WaitEventGetEvent(t, d) ==
    /\ pc = "event_loop"
    /\ WaitEventCondition(wait, now)
    /\ d \in 0..wait.timeout
    /\ now + d <= MaxTime
    /\ now' = now + d
    /\ IF t = wait.event_type
       THEN /\ cp_storage' = CpSetItem(cp_storage, active_session,
                                       "selected_event", [event_type |-> t])
            /\ WithinBounds(cp_storage')
            /\ everSet' = [everSet EXCEPT
                              ![active_session] = @ \cup {"selected_event"}]
            /\ WaitEnds(Polled(last, "target", 0), "ok")
       ELSE /\ Len(last.ret.polls) < MaxPolls
            /\ last' = Polled(last, "other", 0)
            /\ UNCHANGED <<cp_storage, everSet, waitVars>>
    /\ UNCHANGED <<cacheVars, active_session, active_device, nextSession,
                   closeCalls, opensSinceReset, confVars, rdrs>>

\* listener.get(timeout) returns None when no event arrived in time:
\* event.event_type at line 197 raises AttributeError, which line 198
\* does not catch.
WaitEventGetNone ==
    /\ pc = "event_loop"
    /\ WaitEventCondition(wait, now)
    /\ now + wait.timeout <= MaxTime
    /\ now' = now + wait.timeout
    /\ WaitEnds(Polled(last, "none", 0), "AttributeError")
    /\ UNCHANGED <<cacheVars, active_session, active_device, cp_storage,
                   nextSession, closeCalls, everSet, opensSinceReset,
                   confVars, rdrs>>

\* listener.get(timeout) raises SaHpiError: lines 198-203.
WaitEventGetRaises ==
    /\ pc = "event_loop"
    /\ WaitEventCondition(wait, now)
    /\ IF Tolerates(wait.may_fail)
       THEN /\ now + poll_interval <= MaxTime
            /\ Len(last.ret.polls) < MaxPolls
            /\ now' = now + poll_interval
            /\ last' = Polled(last, "raise", 1)
            /\ UNCHANGED waitVars
       ELSE /\ WaitEnds(Polled(last, "raise", 0), "SaHpiError")
            /\ UNCHANGED now
    /\ UNCHANGED <<cacheVars, active_session, active_device, cp_storage,
                   nextSession, closeCalls, everSet, opensSinceReset,
                   confVars, rdrs>>

(***************************************************************************)
(* wait_until_upgrade_state_is(state, may_fail) and                        *)
(* wait_until_test_status_is(status).  One step is one iteration of the    *)
(* while loop: the test of the condition, the status() call and what       *)
(* follows it.  Time passes inside status() and inside time.sleep.         *)
(***************************************************************************)
\* The names given as state or status; "nosuch" names no constant of the
\* family and is no integer literal.
StatusNames == {"done", "nosuch"}

\* What one status() call does: it raises SaHpiError, or returns the value
\* waited for, or returns another value.
PollResults == {"raise", "target", "other"}

\* The ticks one status() call takes.
PollDurations == {0, 1}

\* A loop that still polls at the deadline itself.
WaitStatusCondition_Inclusive(w, t, tmo) == t <= w.start_time + tmo

\* The loop condition of lines 369 and 492
WaitStatusCondition(w, t, tmo) == t < w.start_time + tmo

\* Lines 366-368 and 489-491: up to the first test of the loop condition.
\* The wait starts only when it can run to its end within MaxTime.
WaitStatusStart(kw, key, name, may_fail) ==
    /\ Idle
    /\ LET a == active_session
           arg == [name |-> name, may_fail |-> may_fail]
       IN  IF name = "nosuch"
           THEN /\ last' = Result(kw, arg, "AttributeNotFound", NoPolls)
                /\ UNCHANGED <<waitVars, cp_storage>>
           ELSE IF CpError(a) # "ok"
           THEN /\ last' = Result(kw, arg, CpError(a), NoPolls)
                /\ UNCHANGED <<waitVars, cp_storage>>
           ELSE IF CpUnset(cp_storage, a, key)
           THEN /\ last' = Result(kw, arg, "KeyError", NoPolls)
                /\ cp_storage' = AfterCp(cp_storage, a)
                /\ UNCHANGED waitVars
           ELSE /\ now + timeout + poll_interval <= MaxTime
                /\ last' = Result(kw, arg, "running", NoPolls)
                /\ pc' = "status_loop"
                /\ wait' = [kw |-> kw, name |-> name, may_fail |-> may_fail,
                            start_time |-> now]
                /\ UNCHANGED cp_storage
    /\ UNCHANGED <<cacheVars, active_session, active_device,
                   nextSession, closeCalls, everSet, opensSinceReset,
                   confVars, envVars>>

\* wait_until_upgrade_state_is(state, may_fail), lines 366-368
WaitUpgradeStart(state, may_fail) ==
    WaitStatusStart("wait_upgrade", "selected_fumi_bank", state, may_fail)

\* wait_until_test_status_is(status), lines 489-491.  The keyword takes one
\* argument: a call that passes may_fail as a second one (extra) is
\* rejected with TypeError before the body runs.
WaitTestStart(status, extra) ==
    IF extra
    THEN /\ Idle
         /\ last' = Result("wait_test", [name |-> status, may_fail |-> TRUE],
                           "TypeError", NoPolls)
         /\ UNCHANGED <<cacheVars, active_session, active_device, cp_storage,
                        nextSession, closeCalls, everSet, opensSinceReset,
                        confVars, envVars, waitVars>>
    ELSE WaitStatusStart("wait_test", "selected_dimi_test", status, FALSE)

\* Lines 369/492 are false: lines 384-386 / 500-502 raise the
\* AssertionError.
WaitStatusTimeout ==
    /\ pc = "status_loop"
    /\ ~WaitStatusCondition(wait, now, timeout)
    /\ WaitEnds(last, "Timeout")
    /\ UNCHANGED <<cacheVars, active_session, active_device, cp_storage,
                   nextSession, closeCalls, everSet, opensSinceReset,
                   confVars, envVars>>

\* One iteration of lines 369-382: bank.status() takes d ticks and gives
\* result.
WaitUpgradePoll(result, d) ==
    /\ pc = "status_loop"
    /\ wait.kw = "wait_upgrade"
    /\ WaitStatusCondition(wait, now, timeout)
    /\ IF result = "raise"
       THEN IF Tolerates(wait.may_fail)
            THEN /\ now' = now + d + poll_interval
                 /\ last' = Polled(last, result, 1)
                 /\ UNCHANGED waitVars
            ELSE /\ now' = now + d
                 /\ WaitEnds(Polled(last, result, 0), "SaHpiError")
       ELSE IF result = "target"
       THEN /\ now' = now + d
            /\ WaitEnds(Polled(last, result, 0), "ok")
       ELSE /\ now' = now + d + poll_interval
            /\ last' = Polled(last, result, 1)
            /\ UNCHANGED waitVars
    /\ UNCHANGED <<cacheVars, active_session, active_device, cp_storage,
                   nextSession, closeCalls, everSet, opensSinceReset,
                   confVars, rdrs>>

\* One iteration of lines 492-498: test.status()[0] takes d ticks and
\* gives result; nothing catches what it raises.
WaitTestPoll(result, d) ==
    /\ pc = "status_loop"
    /\ wait.kw = "wait_test"
    /\ WaitStatusCondition(wait, now, timeout)
    /\ IF result = "raise"
       THEN /\ now' = now + d
            /\ WaitEnds(Polled(last, result, 0), "SaHpiError")
       ELSE IF result = "target"
       THEN /\ now' = now + d
            /\ WaitEnds(Polled(last, result, 0), "ok")
       ELSE /\ now' = now + d + poll_interval
            /\ last' = Polled(last, result, 1)
            /\ UNCHANGED waitVars
    /\ UNCHANGED <<cacheVars, active_session, active_device, cp_storage,
                   nextSession, closeCalls, everSet, opensSinceReset,
                   confVars, rdrs>>

(***************************************************************************)
(* start_test(parameters...).  A token is a sequence of characters.       *)
(***************************************************************************)
\* The characters of a parameter token: a letter and the separator.
TokenChars == {"a", "="}

\* p.split('='): the token cut at every separator.
RECURSIVE Split_AtEvery(_)
Split_AtEvery(p) ==
    IF \E i \in 1..Len(p) : p[i] = "="
    THEN LET i == CHOOSE k \in 1..Len(p) :
                     p[k] = "=" /\ \A j \in 1..(k - 1) : p[j] # "="
         IN  <<SubSeq(p, 1, i - 1)>> \o Split_AtEvery(SubSeq(p, i + 1, Len(p)))
    ELSE <<p>>

\* p.split('=', 1), line 470: the token cut at its first separator only.
Split(p) ==
    IF \E i \in 1..Len(p) : p[i] = "="
    THEN LET i == CHOOSE k \in 1..Len(p) :
                     p[k] = "=" /\ \A j \in 1..(k - 1) : p[j] # "="
         IN  <<SubSeq(p, 1, i - 1), SubSeq(p, i + 1, Len(p))>>
    ELSE <<p>>

\* What a Start Test call did with the device, kept as ret in the record
\* of the call: whether test.start was called, whether its argument was
\* None and otherwise the list it was given.
NotStarted == [called |-> FALSE, none |-> FALSE, pairs |-> << >>]

\* test.start(_parameters or None), line 476
Started(_parameters) ==
    [called |-> TRUE, none |-> _parameters = << >>, pairs |-> _parameters]

\* start_test(parameters...); raises tells whether test.start raised.
StartTest(parameters, raises) ==
    /\ Idle
    /\ LET a == active_session
           _parameters == [i \in 1..Len(parameters) |-> Split(parameters[i])]
       IN  IF \E i \in 1..Len(_parameters) : Len(_parameters[i]) # 2
           THEN /\ ~raises
                /\ last' = Result("start_test", parameters,
                                  "MalformedParameter", NotStarted)
                /\ UNCHANGED cp_storage
           ELSE IF CpError(a) # "ok"
           THEN /\ ~raises
                /\ last' = Result("start_test", parameters, CpError(a),
                                  NotStarted)
                /\ UNCHANGED cp_storage
           ELSE IF CpUnset(cp_storage, a, "selected_dimi_test")
           THEN /\ ~raises
                /\ last' = Result("start_test", parameters, "KeyError",
                                  NotStarted)
                /\ cp_storage' = AfterCp(cp_storage, a)
           ELSE /\ last' = Result("start_test", parameters,
                                  IF raises THEN "SaHpiError" ELSE "ok",
                                  Started(_parameters))
                /\ UNCHANGED cp_storage
    /\ UNCHANGED <<cacheVars, active_session, active_device,
                   nextSession, closeCalls, everSet, opensSinceReset,
                   confVars, envVars, waitVars>>

(***************************************************************************)
(* The name resolver: find_attribute (utils.py) and the find_ functions of *)
(* mapping.py.  A string is a sequence of characters.  The names of        *)
(* pyhpi.sahpi are abbreviated: F_ stands for the prefix SAHPI_FUMI_ of    *)
(* the upgrade states, F_D_ for SAHPI_FUMI_SRC_ of the source statuses,    *)
(* which begins with the former, and D_ for SAHPI_DIMITEST_.               *)
(***************************************************************************)
\* The characters of a token: letters in both cases, the separators '_'
\* and ' ', digits and the x of a base prefix.
NameChars == {"f", "F", "d", "D", "x", "X", "_", " ", "0", "1"}

\* str.lower() on one character
Lower(c) ==
    CASE c = "F" -> "f"
      [] c = "D" -> "d"
      [] c = "X" -> "x"
      [] OTHER -> c

\* A normalize that keeps the case of the letters.
Normalize_KeepCase(string, ignore) ==
    SelectSeq(string, LAMBDA c : c # " " /\ c \notin ignore)

\* robot.utils.normalizing.normalize(string, ignore), called at utils.py
\* lines 6-8: whitespace removed, lower case, the characters of ignore
\* removed.
Normalize(string, ignore) ==
    LET spaceless == SelectSeq(string, LAMBDA c : c # " ")
        lowered == [i \in 1..Len(spaceless) |-> Lower(spaceless[i])]
    IN  SelectSeq(lowered, LAMBDA c : c \notin {Lower(x) : x \in ignore})

\* dir(pyhpi.sahpi): the constants in the order dir() lists them (sorted
\* by name), each with its value.
Sahpi ==
    << [name |-> <<"D", "_", "1">>, value |-> 7],
       [name |-> <<"D", "_", "F">>, value |-> 2],
       [name |-> <<"F", "_", "D", "_", "D">>, value |-> 3],
       [name |-> <<"F", "_", "D", "_", "F">>, value |-> 4],
       [name |-> <<"F", "_", "F">>, value |-> 5] >>

\* The prefixes mapping.py passes: find_fumi_upgrade_state (line 29),
\* find_fumi_source_status (line 32), find_dimi_test_service_impact
\* (line 35).
Prefixes == { <<"F", "_">>, <<"F", "_", "D", "_">>, <<"D", "_">> }

\* The value of a character as a digit; 99 when it is none.
DigitValue(c) ==
    CASE c = "0" -> 0
      [] c = "1" -> 1
      [] c \in {"d", "D"} -> 13
      [] c \in {"f", "F"} -> 15
      [] OTHER -> 99

\* The value of a non-empty digit string in a base, most significant digit
\* first; -1 when a character is no digit of the base.
RECURSIVE DigitsValue(_, _, _)
DigitsValue(digits, base, acc) ==
    IF digits = << >>
    THEN acc
    ELSE IF DigitValue(Head(digits)) >= base
    THEN -1
    ELSE DigitsValue(Tail(digits), base, acc * base + DigitValue(Head(digits)))

\* str.strip(): the string without leading and trailing blanks.
RECURSIVE Strip(_)
Strip(string) ==
    IF string # << >> /\ Head(string) = " "
    THEN Strip(Tail(string))
    ELSE IF string # << >> /\ string[Len(string)] = " "
    THEN Strip(SubSeq(string, 1, Len(string) - 1))
    ELSE string

\* int(attr, 0), line 13: the value of an integer literal of Python 2
\* (0x.. is base 16, a leading 0 is base 8, else base 10; blanks around
\* it are allowed, blanks and underscores inside are not); -1 for
\* ValueError.  The characters of the model spell no negative literal.
IntBase0(attr) ==
    LET lit == Strip(attr)
    IN  IF lit = << >>
        THEN -1
        ELSE IF Len(lit) >= 2 /\ lit[1] = "0" /\ lit[2] \in {"x", "X"}
        THEN IF Len(lit) = 2
             THEN -1
             ELSE DigitsValue(SubSeq(lit, 3, Len(lit)), 16, 0)
        ELSE IF lit[1] = "0"
        THEN DigitsValue(Tail(lit), 8, 0)
        ELSE DigitsValue(lit, 10, 0)

\* The position in dir(obj) of the first name whose normal form is that
\* of prefix + attr (lines 5-9); 0 when there is none.
FirstMatch(obj, attr, prefix) ==
    LET hit(i) == Normalize(obj[i].name, {"_"})
                     = Normalize(prefix \o attr, {"_"})
    IN  IF \E i \in 1..Len(obj) : hit(i)
        THEN CHOOSE i \in 1..Len(obj) : hit(i) /\ \A j \in 1..(i - 1) : ~hit(j)
        ELSE 0

\* A resolver that tries the integer literal before the names.
FindAttribute_IntFirst(obj, attr, prefix) ==
    IF IntBase0(attr) # -1
    THEN [found |-> TRUE, value |-> IntBase0(attr)]
    ELSE IF FirstMatch(obj, attr, prefix) # 0
    THEN [found |-> TRUE, value |-> obj[FirstMatch(obj, attr, prefix)].value]
    ELSE [found |-> FALSE, value |-> None]

\* find_attribute(obj, attr, prefix), lines 3-16: found is false when it
\* raises the RuntimeError of line 16.
FindAttribute(obj, attr, prefix) ==
    IF FirstMatch(obj, attr, prefix) # 0
    THEN [found |-> TRUE, value |-> obj[FirstMatch(obj, attr, prefix)].value]
    ELSE IF IntBase0(attr) # -1
    THEN [found |-> TRUE, value |-> IntBase0(attr)]
    ELSE [found |-> FALSE, value |-> None]

\* A keyword's call of one of the find_ functions of mapping.py, with the
\* prefix of that function: the call returns the value or raises.
FindByPrefix(prefix, attr) ==
    /\ Idle
    /\ LET r == FindAttribute(Sahpi, attr, prefix)
       IN  last' = Result("find_attribute", [prefix |-> prefix, attr |-> attr],
                          IF r.found THEN "ok" ELSE "AttributeNotFound",
                          r.value)
    /\ UNCHANGED <<cacheVars, active_session, active_device, cp_storage,
                   nextSession, closeCalls, everSet, opensSinceReset,
                   confVars, envVars, waitVars>>

(***************************************************************************)
(* set_timeout(timeout).  A tick of the clock is a second.  A time string  *)
(* of Robot Framework is a plain number of seconds ("2") or a number of    *)
(* minutes and seconds in words ("1 minute 2 seconds").                    *)
(***************************************************************************)
\* The strings given to Set Timeout; "bad" is no time string.
TimeStrings ==
    [form : {"number"}, n : 0..MaxTimeout]
    \cup [form : {"words"}, minutes : {0, 1}, seconds : 0..MaxTimeout]
    \cup [form : {"bad"}]

\* timestr_to_secs(timeout) raises ValueError
TimestrFails(timestr) == timestr.form = "bad"

\* timestr_to_secs(timeout), line 54
TimestrToSecs(timestr) ==
    IF timestr.form = "number"
    THEN timestr.n
    ELSE 60 * timestr.minutes + timestr.seconds

\* A formatter that drops the minutes.
SecsToTimestr_SecondsOnly(secs) ==
    [form |-> "words", minutes |-> 0, seconds |-> secs % 60]

\* secs_to_timestr(old), line 55
SecsToTimestr(secs) ==
    [form |-> "words", minutes |-> secs \div 60, seconds |-> secs % 60]

\* set_timeout(timeout)
SetTimeout(timestr) ==
    /\ Idle
    /\ LET old == timeout
       IN  IF TimestrFails(timestr)
           THEN /\ last' = Result("set_timeout", timestr, "ValueError", None)
                /\ UNCHANGED timeout
           ELSE /\ timeout' = TimestrToSecs(timestr)
                /\ last' = Result("set_timeout", timestr, "ok",
                                  SecsToTimestr(old))
    /\ UNCHANGED <<cacheVars, active_session, active_device, cp_storage,
                   poll_interval, nextSession, closeCalls, everSet,
                   opensSinceReset, envVars, waitVars>>

(***************************************************************************)
(* Initial states.                                                         *)
(***************************************************************************)
\* The records of a resource when the claim at hand is not about them.
DefaultRdrs ==
    << [rdr_type |-> "FumiRdr", id_string |-> "a"],
       [rdr_type |-> "DimiRdr", id_string |-> "a"] >>

\* HpiLibrary.__init__ (lines 32-37), with the given constructor arguments.
InitLibrary(t, p, recs) ==
    /\ cache_connections = << >>
    /\ cache_aliases = EmptyScope
    /\ cache_current = NoConnection
    /\ active_session = None
    /\ active_device = None
    /\ cp_storage = EmptyScope
    /\ timeout = t
    /\ poll_interval = p
    /\ nextSession = 0
    /\ closeCalls = [s \in Sessions |-> 0]
    /\ rdrs = recs
    /\ now = 0
    /\ pc = "idle"
    /\ wait = NoWait
    /\ last = [kw |-> "init", arg |-> None, outcome |-> "ok", ret |-> None]
    /\ everSet = [h \in Sessions \cup {NoConnection} |-> {}]
    /\ opensSinceReset = 0

Init == InitLibrary(MaxTimeout, 1, DefaultRdrs)

(***************************************************************************)
(* Spec: the connection keywords, over every input.                        *)
(***************************************************************************)
ConnectionKeywords ==
    \/ \E alias \in Aliases \cup {NoAlias} : OpenHpiConnection(alias)
    \/ \E error \in {"ValueError", "SaHpiError"} :
          OpenHpiConnectionFails(NoAlias, error)
    \/ \E x \in SwitchArgs : SwitchHpiConnection(x)
    \/ \E raises \in BOOLEAN : CloseHpiConnection(raises)
    \/ CloseAllHpiConnections
    \/ \E k \in 1..MaxSessions : CloseAllHpiConnectionsFails(k)

Next == ConnectionKeywords

Spec == Init /\ [][Next]_vars

(***************************************************************************)
(* SpecLifecycle: opening and closing connections around keywords that     *)
(* write and read selections.                                              *)
(***************************************************************************)
NextLifecycle ==
    \/ \E alias \in {NoAlias} :
          nextSession < MaxScopes /\ OpenHpiConnection(alias)
    \/ \E x \in SwitchArgs :
          x.kind = "index" /\ x.index \in 1..MaxScopes /\ SwitchHpiConnection(x)
    \/ \E raises \in {FALSE} : CloseHpiConnection(raises)
    \/ CloseAllHpiConnections
    \/ \E ep \in {"P1", "bad"} : SetEntityPath(ep)
    \/ \E n \in {"1"} : SetFumiNumber(n)
    \/ \E rest \in DeviceOutcomes : ResourceInfoShouldBe(rest)

SpecLifecycle == Init /\ [][NextLifecycle]_vars

(***************************************************************************)
(* SpecStore: two or more connections and every keyword that writes or     *)
(* reads a selection key.  An event arrives at once when one is awaited.   *)
(***************************************************************************)
NextStore ==
    \/ \E alias \in {NoAlias} :
          nextSession < MaxScopes /\ OpenHpiConnection(alias)
    \/ \E x \in SwitchArgs :
          x.kind = "index" /\ x.index \in 1..MaxScopes /\ SwitchHpiConnection(x)
    \/ \E ep \in {"P1", "bad"} : SetEntityPath(ep)
    \/ \E n \in {"1"} : SetFumiNumber(n)
    \/ \E n \in {"1"} : SetDimiNumber(n)
    \/ \E ty \in {"FumiRdr"}, id \in RdrIds : RdrShouldExist(ty, id)
    \/ \E n \in {"logical", "x"}, raises \in BOOLEAN : SelectBank(n, raises)
    \/ \E n \in {"1"}, raises \in BOOLEAN : SelectTest(n, raises)
    \/ \E rest \in DeviceOutcomes : ResourceInfoShouldBe(rest)
    \/ \E rest \in DeviceOutcomes : SelectedRdrShouldBe(rest)
    \/ \E rest \in DeviceOutcomes : UseSelectedBank(rest)
    \/ \E rest \in DeviceOutcomes : UseSelectedTest(rest)
    \/ \E ty \in {"FUMI"}, rest \in DeviceOutcomes : EventShouldBe(ty, rest)
    \/ \E ty \in {"FUMI"} : WaitEventStart(ty, FALSE)
    \/ \E ty \in {"FUMI"} : WaitEventGetEvent(ty, 0)

SpecStore == Init /\ [][NextStore]_vars

(***************************************************************************)
(* SpecSelect: resource and record selection on one connection, over every *)
(* list of at most MaxRdrs records.                                        *)
(***************************************************************************)
RECURSIVE SeqsUpTo(_, _)
SeqsUpTo(S, n) ==
    IF n = 0
    THEN {<< >>}
    ELSE LET shorter == SeqsUpTo(S, n - 1)
         IN  shorter \cup {Append(q, x) : q \in shorter, x \in S}

InitSelect ==
    \E recs \in SeqsUpTo([rdr_type : RdrTypes, id_string : RdrIds], MaxRdrs) :
        InitLibrary(MaxTimeout, 1, recs)

NextSelect ==
    \/ \E alias \in {NoAlias} :
          nextSession = 0 /\ OpenHpiConnection(alias)
    \/ \E ep \in EntityPathStrings : SetEntityPath(ep)
    \/ \E ty \in RdrTypes, id \in RdrIds : RdrShouldExist(ty, id)
    \/ \E rest \in DeviceOutcomes : ResourceInfoShouldBe(rest)
    \/ \E rest \in DeviceOutcomes : SelectedRdrShouldBe(rest)

SpecSelect == InitSelect /\ [][NextSelect]_vars

(***************************************************************************)
(* SpecPath: the resource of a connection is changed between selections.   *)
(* Up to MaxScopes connections, every string given to Set Entity Path, and *)
(* the keywords that store a record, a bank, a test and an event.          *)
(***************************************************************************)
NextPath ==
    \/ \E alias \in {NoAlias} :
          nextSession < MaxScopes /\ OpenHpiConnection(alias)
    \/ \E x \in SwitchArgs :
          x.kind = "index" /\ x.index \in 1..MaxScopes /\ SwitchHpiConnection(x)
    \/ \E ep \in EntityPathStrings : SetEntityPath(ep)
    \/ \E ty \in RdrTypes : RdrShouldExist(ty, "a")
    \/ SelectBank("logical", FALSE)
    \/ SelectTest("1", FALSE)
    \/ WaitEventStart("FUMI", FALSE)
    \/ WaitEventGetEvent("FUMI", 0)

SpecPath == Init /\ [][NextPath]_vars

(***************************************************************************)
(* SpecWait: the event wait, over every timeout up to MaxTimeout and every *)
(* behaviour of the event listener.                                        *)
(***************************************************************************)
InitWait == \E t \in 0..MaxTimeout : InitLibrary(t, 1, DefaultRdrs)

NextWait ==
    \/ \E alias \in {NoAlias} :
          nextSession < MaxScopes /\ OpenHpiConnection(alias)
    \/ CloseAllHpiConnections
    \/ \E ty \in EventTypeNames, may_fail \in BOOLEAN :
          WaitEventStart(ty, may_fail)
    \/ WaitEventTimeout
    \/ \E ty \in EventTypes, d \in 0..MaxTimeout : WaitEventGetEvent(ty, d)
    \/ WaitEventGetNone
    \/ WaitEventGetRaises
    \/ \E ty \in EventTypes, rest \in DeviceOutcomes : EventShouldBe(ty, rest)

SpecWait == InitWait /\ [][NextWait]_vars

(***************************************************************************)
(* SpecPoll: the three waits on one connection, over every timeout up to   *)
(* MaxTimeout, every poll interval from 1 to MaxTimeout and every          *)
(* behaviour of the transport.                                             *)
(***************************************************************************)
InitPoll ==
    \E t \in 0..MaxTimeout, p \in 1..MaxTimeout : InitLibrary(t, p, DefaultRdrs)

NextPoll ==
    \/ \E alias \in {NoAlias} :
          nextSession = 0 /\ OpenHpiConnection(alias)
    \/ \E ep \in {"P1"} : SetEntityPath(ep)
    \/ \E ty \in {"FumiRdr"}, id \in {"a"} : RdrShouldExist(ty, id)
    \/ \E n \in {"logical"}, raises \in {FALSE} : SelectBank(n, raises)
    \/ \E n \in {"1"}, raises \in {FALSE} : SelectTest(n, raises)
    \/ \E ty \in {"FUMI"}, may_fail \in BOOLEAN : WaitEventStart(ty, may_fail)
    \/ WaitEventTimeout
    \/ \E ty \in EventTypes, d \in PollDurations : WaitEventGetEvent(ty, d)
    \/ WaitEventGetRaises
    \/ \E name \in StatusNames, may_fail \in BOOLEAN :
          WaitUpgradeStart(name, may_fail)
    \/ \E name \in StatusNames, extra \in BOOLEAN : WaitTestStart(name, extra)
    \/ WaitStatusTimeout
    \/ \E result \in PollResults, d \in PollDurations :
          WaitUpgradePoll(result, d)
    \/ \E result \in PollResults, d \in PollDurations : WaitTestPoll(result, d)

SpecPoll == InitPoll /\ [][NextPoll]_vars

(***************************************************************************)
(* SpecStart: Start Test on one connection, over every list of at most     *)
(* MaxParams tokens of at most MaxTokenLen characters.  A Start Test call  *)
(* leaves nothing in the library that the next call reads, so two calls    *)
(* are explored with another keyword between them.                         *)
(***************************************************************************)
NextStart ==
    \/ \E alias \in {NoAlias} :
          nextSession = 0 /\ OpenHpiConnection(alias)
    \/ \E ep \in {"P1"} : SetEntityPath(ep)
    \/ \E ty \in {"DimiRdr"}, id \in {"a"} : RdrShouldExist(ty, id)
    \/ \E n \in {"1"}, raises \in {FALSE} : SelectTest(n, raises)
    \/ /\ last.kw # "start_test"
       /\ \E parameters \in SeqsUpTo(SeqsUpTo(TokenChars, MaxTokenLen),
                                     MaxParams),
             raises \in BOOLEAN : StartTest(parameters, raises)

SpecStart == Init /\ [][NextStart]_vars

(***************************************************************************)
(* SpecResolve: the name resolver applied to every token of at most        *)
(* MaxNameLen characters under every prefix.  The resolver keeps no state: *)
(* a behaviour is one call.                                                *)
(***************************************************************************)
NextResolve ==
    /\ last.kw = "init"
    /\ \E prefix \in Prefixes, attr \in SeqsUpTo(NameChars, MaxNameLen) :
          FindByPrefix(prefix, attr)

SpecResolve == Init /\ [][NextResolve]_vars

(***************************************************************************)
(* SpecConf: Set Timeout between waits on two connections.                 *)
(***************************************************************************)
NextConf ==
    \/ \E alias \in {NoAlias} :
          nextSession < MaxScopes /\ OpenHpiConnection(alias)
    \/ \E timestr \in TimeStrings : SetTimeout(timestr)
    \/ \E ep \in {"P1"} : SetEntityPath(ep)
    \/ \E ty \in {"FumiRdr"}, id \in {"a"} : RdrShouldExist(ty, id)
    \/ \E n \in {"logical"}, raises \in {FALSE} : SelectBank(n, raises)
    \/ \E ty \in {"FUMI"}, may_fail \in {FALSE} : WaitEventStart(ty, may_fail)
    \/ WaitEventTimeout
    \/ \E ty \in {"FUMI"}, d \in PollDurations : WaitEventGetEvent(ty, d)
    \/ \E name \in {"done"}, may_fail \in {FALSE} :
          WaitUpgradeStart(name, may_fail)
    \/ WaitStatusTimeout
    \/ \E result \in {"target", "other"}, d \in {0} :
          WaitUpgradePoll(result, d)

SpecConf == Init /\ [][NextConf]_vars

(***************************************************************************)
(* SpecClose: closing one connection and all of them, with connections     *)
(* that hold a selection.                                                  *)
(***************************************************************************)
NextClose ==
    \/ \E alias \in {NoAlias} :
          nextSession < MaxScopes /\ OpenHpiConnection(alias)
    \/ \E x \in SwitchArgs :
          x.kind = "index" /\ x.index \in 1..MaxScopes /\ SwitchHpiConnection(x)
    \/ \E raises \in BOOLEAN : CloseHpiConnection(raises)
    \/ CloseAllHpiConnections
    \/ \E k \in 1..MaxScopes : CloseAllHpiConnectionsFails(k)
    \/ \E ep \in {"P1"} : SetEntityPath(ep)

SpecClose == Init /\ [][NextClose]_vars

(***************************************************************************)
(* SpecOpen: opens that succeed and opens that fail, with and without an   *)
(* alias, around switches, close-all and selections.                       *)
(***************************************************************************)
NextOpen ==
    \/ \E alias \in Aliases \cup {NoAlias} :
          nextSession < MaxScopes /\ OpenHpiConnection(alias)
    \/ \E alias \in Aliases \cup {NoAlias},
          error \in {"ValueError", "SaHpiError"} :
              OpenHpiConnectionFails(alias, error)
    \/ \E x \in SwitchArgs :
          x.index \in 0..MaxScopes /\ SwitchHpiConnection(x)
    \/ CloseAllHpiConnections
    \/ \E ep \in {"P1"} : SetEntityPath(ep)

SpecOpen == Init /\ [][NextOpen]_vars

(***************************************************************************)
(* SpecPollLive: SpecPoll with a status wait that keeps running: the       *)
(* keyword runs in the caller's thread, status() returns or raises and     *)
(* time.sleep returns, so an iteration that can be taken is taken.         *)
(***************************************************************************)
StatusLoopStep ==
    \/ WaitStatusTimeout
    \/ \E result \in PollResults, d \in PollDurations :
          WaitUpgradePoll(result, d)
    \/ \E result \in PollResults, d \in PollDurations : WaitTestPoll(result, d)

SpecPollLive == InitPoll /\ [][NextPoll]_vars /\ WF_vars(StatusLoopStep)

(***************************************************************************)
(* Properties.                                                             *)
(***************************************************************************)
\* The keywords that read or write a selection.
SelectionKeywordNames ==
    {"set_entity_path", "set_fumi_number", "set_dimi_number",
     "rdr_should_exist", "select_bank", "select_test",
     "resource_info_should_be", "selected_rdr_should_be",
     "use_selected_bank", "use_selected_test", "event_should_be"}

\* The outcomes of a call that ends before any selection is touched,
\* because an argument does not parse.
ArgumentErrors == {"InvalidEntityPath", "ValueError"}

\* The key a reading keyword reads first.
KeyRead(kw) ==
    CASE kw = "resource_info_should_be" -> "entity_path"
      [] kw = "selected_rdr_should_be" -> "selected_rdr"
      [] kw = "use_selected_bank" -> "selected_fumi_bank"
      [] kw = "use_selected_test" -> "selected_dimi_test"
      [] kw = "event_should_be" -> "selected_event"

ReadingKeywordNames ==
    {"resource_info_should_be", "selected_rdr_should_be",
     "use_selected_bank", "use_selected_test", "event_should_be"}

\* The position of handle h in the cache's list, 0 when it is not in it.
PositionOf(h) ==
    IF \E i \in 1..Len(cache_connections) : cache_connections[i] = h
    THEN CHOOSE i \in 1..Len(cache_connections) : cache_connections[i] = h
    ELSE 0

\* C1: after Switch HPI Connection succeeds for the index or alias of a
\* registered connection, that connection is the active one: the session
\* the keywords use, which is also the key of the selection scope they
\* read and write, is the connection switched to.
C1_SwitchMakesActive ==
    (last.kw = "switch" /\ last.outcome = "ok")
        => /\ active_session = cache_current
           /\ active_session = cache_connections[
                  ResolveAliasOrIndex(last.arg, cache_connections,
                                      cache_aliases)]

\* C2: selection scopes of distinct handles never alias: whatever a step
\* writes while handle A is the active session (the handle the storage
\* is keyed by), the scope of every other handle B stays as it was, and a
\* scope that appears is the active session's.
C2_ScopesNeverAlias ==
    [][ /\ \A b \in DOMAIN cp_storage :
             b # active_session
                => b \in DOMAIN cp_storage' /\ cp_storage'[b] = cp_storage[b]
        /\ \A b \in DOMAIN cp_storage' :
             b \notin DOMAIN cp_storage => b = active_session ]_vars

\* C2 witness: a write made while session 2 is active, with session 1
\* holding a selection that session 2 does not hold.
C2_Witness ==
    /\ active_session = 2
    /\ last.kw = "set_entity_path" /\ last.outcome = "ok"
    /\ 1 \in DOMAIN cp_storage /\ 2 \in DOMAIN cp_storage
    /\ DOMAIN cp_storage[1] = {"fumi_number"}
    /\ DOMAIN cp_storage[2] = {"entity_path"}

\* C3: while no connection is active (before the first open, after Close
\* All HPI Connections) a keyword that reads or writes a selection fails
\* with the no-active-connection error and no scope is created.
C3_NoActiveConnectionFails ==
    (/\ cache_current = NoConnection
     /\ last.kw \in SelectionKeywordNames
     /\ last.outcome \notin ArgumentErrors)
        => /\ last.outcome = "NoConnectionActive"
           /\ NoConnection \notin DOMAIN cp_storage

\* C4: a keyword that reads a selection key fails with the unset-selection
\* error (KeyError) when the key was never set while the active session
\* was active, whatever other connections hold; a scope holds only keys
\* set while its handle was active, and a connection just opened has none.
C4_UnsetReadFails ==
    /\ \A h \in DOMAIN cp_storage : DOMAIN cp_storage[h] \subseteq everSet[h]
    /\ (/\ last.kw \in ReadingKeywordNames
        /\ active_session \in Sessions
        /\ KeyRead(last.kw) \notin everSet[active_session])
          => last.outcome = "KeyError"
    /\ (last.kw = "open" /\ last.outcome = "ok")
          => active_session \notin DOMAIN cp_storage

\* C4 witness: session 1 holds a selected bank, session 2 is active and
\* the keyword reading the selected bank failed with KeyError.
C4_Witness ==
    /\ active_session = 2
    /\ 1 \in DOMAIN cp_storage
    /\ "selected_fumi_bank" \in DOMAIN cp_storage[1]
    /\ last.kw = "use_selected_bank" /\ last.outcome = "KeyError"

\* C5: the k-th successful Open HPI Connection since the start or since
\* the last Close All HPI Connections returns k.
C5_SequentialIndices ==
    (last.kw = "open" /\ last.outcome = "ok") => last.ret = opensSinceReset

\* C5 witness: the third session ever opened is the first one after a
\* close-all and got index 1.
C5_Witness ==
    /\ last.kw = "open" /\ last.outcome = "ok" /\ last.ret = 1
    /\ nextSession = 3

\* C6: a successful Switch HPI Connection returns the index of the
\* connection that was current immediately before the call; after a
\* successful switch to a, the next keyword being a successful switch
\* returns a's index.
C6_SwitchReturnsPrevious ==
    [][ (last'.kw = "switch" /\ last'.outcome = "ok")
          => /\ last'.ret = PositionOf(cache_current)
             /\ (last.kw = "switch" /\ last.outcome = "ok")
                   => last'.ret = ResolveAliasOrIndex(
                          last.arg, cache_connections, cache_aliases) ]_vars

\* C6 witness: three connections, a switch away from 2 to 1 returned 2.
C6_Witness ==
    /\ Len(cache_connections) = 3
    /\ last.kw = "switch" /\ last.outcome = "ok"
    /\ last.arg.kind = "index" /\ last.arg.index = 1
    /\ last.ret = 2
    /\ cache_current = cache_connections[1]

\* C7: after Close All HPI Connections the selection store holds no scope
\* for a handle that was registered before the call.
C7_ScopesDiscardedOnCloseAll ==
    (last.kw = "close_all" /\ last.outcome = "ok")
        => \A h \in Sessions : h \notin DOMAIN cp_storage

\* The number of resources the active session exposes at entity path ep.
ResourcesAt(ep) == Len(ResourcesByEntityPath(active_session, ep))

\* C8 as stated: Set Entity Path with a well-formed path succeeds and
\* stores the selection when the active session exposes exactly one
\* resource with that path, and the selection itself fails, with one
\* error kind, when it exposes none or more than one.
C8_SelectionChecksResource ==
    (/\ last.kw = "set_entity_path"
     /\ last.arg \in EntityPaths
     /\ active_session \in Sessions)
        => IF ResourcesAt(last.arg) = 1
           THEN last.outcome = "ok"
           ELSE last.outcome = "ResourceCount"

\* C8 as amended: Set Entity Path with a well-formed path succeeds on an
\* open connection whatever the session exposes, and stores the path; the
\* keyword that later resolves the selected resource gets past the
\* resource check exactly when the session exposes one resource with the
\* stored path, and fails with the one error ResourceCount for none and
\* for more than one.
C8_SelectionDeferred ==
    /\ (/\ last.kw = "set_entity_path"
        /\ last.arg \in EntityPaths
        /\ active_session \in Sessions)
          => /\ last.outcome = "ok"
             /\ cp_storage[active_session]["entity_path"] = last.arg
    /\ (/\ last.kw \in {"resource_info_should_be", "rdr_should_exist"}
        /\ active_session \in Sessions
        /\ active_session \in DOMAIN cp_storage
        /\ "entity_path" \in DOMAIN cp_storage[active_session])
          => (last.outcome = "ResourceCount"
                <=> ResourcesAt(cp_storage[active_session]["entity_path"]) # 1)

\* C8 witness: the path with no resource was stored, and the keyword that
\* resolves the resource failed on the resource count.
C8_Witness ==
    /\ active_session \in Sessions
    /\ active_session \in DOMAIN cp_storage
    /\ "entity_path" \in DOMAIN cp_storage[active_session]
    /\ cp_storage[active_session]["entity_path"] = "P0"
    /\ last.kw = "resource_info_should_be"
    /\ last.outcome = "ResourceCount"

\* Record i of the resource is of the type and id the call asked for.
Matches(i, want) ==
    rdrs[i].rdr_type = want.rdr_type /\ rdrs[i].id_string = want.id

\* C9: with a selected resource, record selection by (type, id) stores as
\* selected_rdr of the active scope the first record, in record order,
\* of that type and id; when no record matches it fails with RdrNotFound
\* and the storage, hence the selected record, is as before.
C9_RecordSelection ==
    [][ (last'.kw = "rdr_should_exist" /\ pc = "idle")
          => /\ last'.outcome = "ok"
                  => LET r == cp_storage'[active_session]["selected_rdr"]
                     IN  /\ r.pos \in 1..Len(rdrs)
                         /\ Matches(r.pos, last'.arg)
                         /\ \A j \in 1..(r.pos - 1) : ~Matches(j, last'.arg)
                         /\ r.rdr_type = last'.arg.rdr_type
                         /\ r.id_string = last'.arg.id
             /\ last'.outcome = "RdrNotFound"
                  => /\ \A i \in 1..Len(rdrs) : ~Matches(i, last'.arg)
                     /\ cp_storage' = cp_storage
             /\ (/\ active_session \in Sessions
                 /\ active_session \in DOMAIN cp_storage
                 /\ "entity_path" \in DOMAIN cp_storage[active_session]
                 /\ ResourcesAt(cp_storage[active_session]["entity_path"]) = 1)
                  => last'.outcome =
                        IF \E i \in 1..Len(rdrs) : Matches(i, last'.arg)
                        THEN "ok" ELSE "RdrNotFound" ]_vars

\* C9 witness: of three records the first has the id asked for but another
\* type, the second and third both match, and the second was stored.
C9_Witness ==
    /\ Len(rdrs) = 3
    /\ rdrs[2] = rdrs[3]
    /\ rdrs[1].id_string = rdrs[2].id_string
    /\ rdrs[1].rdr_type # rdrs[2].rdr_type
    /\ last.kw = "rdr_should_exist" /\ last.outcome = "ok"
    /\ Matches(2, last.arg)
    /\ active_session \in DOMAIN cp_storage
    /\ "selected_rdr" \in DOMAIN cp_storage[active_session]
    /\ cp_storage[active_session]["selected_rdr"].pos = 2

\* C10: the event wait always ends: once the deadline has passed the loop
\* is left, and a wait on an open connection for a known event type ends
\* with success or with the timeout failure (or, in strict mode only, with
\* the transport error), whatever the listener does.
C10_EventWaitEnds ==
    /\ (pc = "event_loop" /\ now >= wait.end_time)
          => ~WaitEventCondition(wait, now)
    /\ (/\ last.kw = "wait_event"
        /\ pc = "idle"
        /\ active_session \in Sessions
        /\ last.arg.event_type \in EventTypes)
          => \/ last.outcome \in {"ok", "Timeout"}
             \/ last.outcome = "SaHpiError" /\ ~last.arg.may_fail

\* The keywords that wait.
WaitKeywordNames == {"wait_event", "wait_upgrade", "wait_test"}

\* The step is a poll attempt of the wait in progress, and it raised.
PollRaised ==
    /\ pc # "idle"
    /\ Len(last'.ret.polls) = Len(last.ret.polls) + 1
    /\ last'.ret.polls[Len(last'.ret.polls)] = "raise"

\* C11: in strict mode (may_fail false) a poll attempt that raises a
\* transport error ends the wait at once with that error: the step that
\* polls performs no sleep (the sleep count stays, and no more time passes
\* than the poll took) and leaves the loop, so no poll follows it.
C11_StrictFailsImmediately ==
    [][ (PollRaised /\ ~wait.may_fail)
          => /\ pc' = "idle"
             /\ last'.outcome = "SaHpiError"
             /\ last'.ret.sleeps = last.ret.sleeps
             /\ (now' - now) \in PollDurations ]_vars

\* C11 witness: a strict upgrade-state wait polled another state, slept,
\* polled again and ended with the transport error of the second poll.
C11_Witness ==
    /\ last.kw = "wait_upgrade" /\ ~last.arg.may_fail
    /\ pc = "idle"
    /\ last.outcome = "SaHpiError"
    /\ last.ret = [polls |-> <<"other", "raise">>, sleeps |-> 1]

\* C12: the test-status wait has the two transport-error modes of the
\* upgrade-state wait: called strict, a poll that raises ends it with the
\* transport error; called tolerant (may_fail), the call is accepted and
\* no poll error ends it: it is running, or ended with success, with the
\* timeout failure or with the error of an unset selection.
C12_TestWaitHasBothModes ==
    (last.kw \in {"wait_upgrade", "wait_test"} /\ last.arg.name = "done")
        => IF last.arg.may_fail
           THEN last.outcome \in {"running", "ok", "Timeout",
                                  "NoConnectionActive", "KeyError"}
           ELSE (\E i \in 1..Len(last.ret.polls) :
                    last.ret.polls[i] = "raise")
                   => last.outcome = "SaHpiError"

\* C13: a tolerant upgrade-state wait (may_fail) with a timeout of two
\* poll intervals whose first poll raises a transport error swallows it
\* with one sleep and, the poll having taken no time, polls again; when
\* the second poll returns the target state the wait succeeds, after
\* exactly one sleep and exactly two poll attempts.
C13_TolerantRetrySucceeds ==
    (/\ last.kw = "wait_upgrade" /\ last.arg.may_fail
     /\ timeout = 2 * poll_interval
     /\ Len(last.ret.polls) >= 1 /\ last.ret.polls[1] = "raise")
        => /\ Len(last.ret.polls) = 1
                => /\ last.ret.sleeps = 1
                   /\ last.outcome \in {"running", "Timeout"}
                   /\ (pc = "status_loop"
                          /\ now = wait.start_time + poll_interval)
                         => WaitStatusCondition(wait, now, timeout)
           /\ (Len(last.ret.polls) >= 2 /\ last.ret.polls[2] = "target")
                => /\ pc = "idle" /\ last.outcome = "ok"
                   /\ last.ret.sleeps = 1
                   /\ Len(last.ret.polls) = 2

\* C13 witness: timeout 2, poll interval 1, the first poll raised, the
\* second returned the target and the wait succeeded one tick after its
\* start.
C13_Witness ==
    /\ last.kw = "wait_upgrade" /\ last.arg.may_fail
    /\ timeout = 2 * poll_interval
    /\ last.ret = [polls |-> <<"raise", "target">>, sleeps |-> 1]
    /\ last.outcome = "ok" /\ pc = "idle"
    /\ now = poll_interval

\* The number of separators in token p.
Separators(p) == Cardinality({i \in 1..Len(p) : p[i] = "="})

\* A test is selected on the active connection.
TestSelected ==
    /\ active_session \in Sessions
    /\ active_session \in DOMAIN cp_storage
    /\ "selected_dimi_test" \in DOMAIN cp_storage[active_session]

\* start received one [name, value] pair per token, in argument order,
\* each pair spelling its token around one separator that the name does
\* not contain; or None when no token was given.
StartGotPairsOf(tokens, r) ==
    /\ r.called
    /\ r.none <=> tokens = << >>
    /\ Len(r.pairs) = Len(tokens)
    /\ \A i \in 1..Len(tokens) :
          /\ Len(r.pairs[i]) = 2
          /\ r.pairs[i][1] \o <<"=">> \o r.pairs[i][2] = tokens[i]
          /\ \A j \in 1..Len(r.pairs[i][1]) : r.pairs[i][1][j] # "="

\* C14 as stated: with a test selected, Start Test calls the test's start
\* if and only if every token contains exactly one '='; a token with none
\* or with more than one fails with the malformed-parameter error and
\* start is not called; otherwise start receives the (name, value) pairs
\* in argument order, or none when no token is given.
C14_StartIffExactlyOneSeparator ==
    (last.kw = "start_test" /\ TestSelected)
        => IF \A i \in 1..Len(last.arg) : Separators(last.arg[i]) = 1
           THEN StartGotPairsOf(last.arg, last.ret)
           ELSE last.outcome = "MalformedParameter" /\ ~last.ret.called

\* C14 as amended: with a test selected, Start Test calls the test's start
\* if and only if every token contains at least one '='; a token with none
\* fails with the malformed-parameter error and start is not called;
\* otherwise start receives, in argument order, one pair per token, cut at
\* the token's first '=' (the value keeps any further '='), or none when
\* no token is given.  A malformed token fails in the same way when no
\* test is selected.
C14_StartIffSeparator ==
    last.kw = "start_test"
        => IF \A i \in 1..Len(last.arg) : Separators(last.arg[i]) >= 1
           THEN TestSelected => StartGotPairsOf(last.arg, last.ret)
           ELSE last.outcome = "MalformedParameter" /\ ~last.ret.called

\* C14 witness: two tokens, the second with two separators, were passed
\* on as two pairs.
C14_Witness ==
    /\ last.kw = "start_test" /\ last.outcome = "ok"
    /\ last.arg = << <<"a", "=">>, <<"=", "a", "=">> >>
    /\ last.ret.called
    /\ last.ret.pairs = << << <<"a">>, << >> >>, << << >>, <<"a", "=">> >> >>

\* The separator characters of a name.
NameSeparators == {"_", " "}

\* A letter in the other case; any other character as it is.
OtherCase(c) ==
    CASE c = "f" -> "F" [] c = "F" -> "f"
      [] c = "d" -> "D" [] c = "D" -> "d"
      [] c = "x" -> "X" [] c = "X" -> "x"
      [] OTHER -> c

\* The letters and digits of a name, separators dropped, case ignored.
RECURSIVE Spelling(_)
Spelling(name) ==
    IF name = << >>
    THEN << >>
    ELSE IF Head(name) \in NameSeparators
    THEN Spelling(Tail(name))
    ELSE <<IF Head(name) \in {"F", "D", "X"}
           THEN OtherCase(Head(name)) ELSE Head(name)>>
         \o Spelling(Tail(name))

\* The variants of a token one edit away: the case of one letter changed,
\* one separator inserted, one separator removed.  Every variant is
\* reached by a chain of such edits.
Variants(t) ==
    {[t EXCEPT ![i] = OtherCase(@)] : i \in 1..Len(t)}
    \cup {SubSeq(t, 1, k) \o <<c>> \o SubSeq(t, k + 1, Len(t)) :
             k \in 0..Len(t), c \in NameSeparators}
    \cup {SubSeq(t, 1, i - 1) \o SubSeq(t, i + 1, Len(t)) :
             i \in {j \in 1..Len(t) : t[j] \in NameSeparators}}

\* The constants of the namespace that token attr names under prefix.
NamedBy(prefix, attr) ==
    {i \in 1..Len(Sahpi) : Spelling(Sahpi[i].name) = Spelling(prefix \o attr)}

\* C15: for the fixed symbol table and a family prefix, a token that names
\* a symbol resolves to a value, and every variant of the token obtained
\* by changing the case of a letter or by inserting or removing a
\* separator (underscore, blank) resolves to the same value.
C15_VariantsResolveAlike ==
    (last.kw = "find_attribute"
       /\ NamedBy(last.arg.prefix, last.arg.attr) # {})
        => /\ last.outcome = "ok"
           /\ \A v \in Variants(last.arg.attr) :
                 FindAttribute(Sahpi, v, last.arg.prefix)
                    = [found |-> TRUE, value |-> last.ret]

\* C15 witness: the token "d F" resolved under the prefix F_ to the value
\* of F_D_F.
C15_Witness ==
    /\ last.kw = "find_attribute" /\ last.outcome = "ok"
    /\ last.arg = [prefix |-> <<"F", "_">>, attr |-> <<"d", " ", "F">>]
    /\ last.ret = 4

\* C16: under a family prefix, a token that spells the full prefixed name
\* of a constant of the family resolves to the value of that constant,
\* like the token without the prefix.
C16_FullNameResolves ==
    last.kw = "find_attribute"
        => \A i \in 1..Len(Sahpi) :
              LET name == Sahpi[i].name
                  p == last.arg.prefix
              IN  (/\ Len(name) > Len(p)
                   /\ SubSeq(name, 1, Len(p)) = p
                   /\ \/ Spelling(last.arg.attr) = Spelling(name)
                      \/ Spelling(last.arg.attr)
                            = Spelling(SubSeq(name, Len(p) + 1, Len(name))))
                     => last.outcome = "ok" /\ last.ret = Sahpi[i].value

\* C17: a token that names no symbol under the prefix resolves to its
\* integer value when it is an integer literal (decimal, or with a base
\* prefix) and fails with AttributeNotFound when it is none; a token that
\* names a symbol resolves to the symbol's value even when it is an
\* integer literal too.
C17_IntegerFallback ==
    last.kw = "find_attribute"
        => LET named == NamedBy(last.arg.prefix, last.arg.attr)
               attr == last.arg.attr
           IN  /\ named # {}
                    => /\ last.outcome = "ok"
                       /\ \E i \in named : last.ret = Sahpi[i].value
               /\ (named = {} /\ IntBase0(attr) # -1)
                    => last.outcome = "ok" /\ last.ret = IntBase0(attr)
               /\ (named = {} /\ IntBase0(attr) = -1)
                    => last.outcome = "AttributeNotFound"
               /\ (named = {} /\ attr = <<"1", "0">>) => last.ret = 10
               /\ (named = {} /\ attr = <<"0", "x", "f">>) => last.ret = 15
               /\ (named = {} /\ attr = <<"0", "X", "1">>) => last.ret = 1
               /\ (named = {} /\ attr = <<"0", "1", "1">>) => last.ret = 9
               /\ (named = {} /\ attr \in {<<"x", "1">>, <<"1", "_", "0">>,
                                          <<"0", "x">>, <<"1", " ", "1">>})
                    => last.outcome = "AttributeNotFound"

\* C17 witness: the token "1", an integer literal, names the constant D_1
\* under the prefix D_ and resolved to the value of D_1.
C17_Witness ==
    /\ last.kw = "find_attribute" /\ last.outcome = "ok"
    /\ last.arg = [prefix |-> <<"D", "_">>, attr |-> <<"1">>]
    /\ IntBase0(last.arg.attr) = 1
    /\ last.ret = 7

\* The number of seconds a time string denotes.
Seconds(timestr) ==
    CASE timestr.form = "number" -> timestr.n
      [] timestr.form = "words" -> timestr.seconds + 60 * timestr.minutes

\* The step is a Set Timeout call that returned.
SetTimeoutReturned ==
    pc = "idle" /\ last'.kw = "set_timeout" /\ last'.outcome = "ok"

\* C18: Set Timeout returns a string that denotes the timeout in effect
\* before the call and makes the value given the timeout; the timeout is
\* one value for all connections, changed by nothing else, and it is the
\* value the waits that follow use; a second call given the string the
\* first one returned sets the timeout that string denotes, the earlier
\* one.
C18_SetTimeoutReturnsOld ==
    [][ /\ SetTimeoutReturned
             => /\ Seconds(last'.ret) = timeout
                /\ timeout' = Seconds(last'.arg)
                /\ (last.kw = "set_timeout" /\ last.outcome = "ok"
                       /\ last'.arg = last.ret)
                      => timeout' = Seconds(last.ret)
        /\ timeout' # timeout => SetTimeoutReturned
        /\ (pc = "idle" /\ pc' = "event_loop")
             => wait'.end_time = wait'.start_time + timeout
        /\ (pc = "status_loop" /\ last'.outcome = "Timeout")
             => now >= wait.start_time + timeout
        /\ (pc = "status_loop" /\ last'.ret # last.ret)
             => now < wait.start_time + timeout ]_vars

\* C18 witness: with two connections open, a timeout of 61 seconds was
\* replaced by 2 seconds, given as the string a call made while the
\* timeout was 2 seconds returns, and the call returned "1 minute 1 second".
C18_Witness ==
    /\ nextSession = 2
    /\ last.kw = "set_timeout" /\ last.outcome = "ok"
    /\ last.arg = [form |-> "words", minutes |-> 0, seconds |-> 2]
    /\ last.ret = [form |-> "words", minutes |-> 1, seconds |-> 1]
    /\ timeout = 2

\* C19: in every reachable state the session the keywords operate on,
\* which is the key of the selection scope, is the cache's current entry,
\* and it is none (None, or the cache's no-connection object) exactly
\* when the cache has no current entry.
C19_ActiveIsCacheCurrent ==
    IF cache_current = NoConnection
    THEN active_session \in {None, NoConnection}
    ELSE active_session = cache_current

\* C20: Close HPI Connection calls close() on the active session and on
\* no other, and leaves the cache's list, aliases and current entry, the
\* active session and every selection scope as they were; the session
\* stays registered, so a later Close All HPI Connections calls close()
\* on it again, as on every registered session.
C20_CloseLeavesRegistry ==
    [][ /\ (pc = "idle" /\ last'.kw = "close")
             => /\ UNCHANGED <<cache_connections, cache_aliases,
                               cache_current, active_session, cp_storage>>
                /\ \A s \in Sessions :
                      closeCalls'[s] = closeCalls[s]
                         + (IF s = active_session THEN 1 ELSE 0)
        /\ (pc = "idle" /\ last'.kw = "close_all" /\ last'.outcome = "ok")
             => \A i \in 1..Len(cache_connections) :
                   closeCalls'[cache_connections[i]]
                      = closeCalls[cache_connections[i]] + 1 ]_vars

\* C20 witness: a session that holds a selection was closed by Close HPI
\* Connection, stayed registered and active, and was closed a second time
\* by Close All HPI Connections.
C20_Witness ==
    /\ last.kw = "close_all" /\ last.outcome = "ok"
    /\ closeCalls[1] = 2
    /\ 1 \in DOMAIN cp_storage /\ "entity_path" \in DOMAIN cp_storage[1]

\* C21: an Open HPI Connection that fails ends with the error raised and
\* leaves the connection state as it was: the cache's list, aliases and
\* current entry, the active session and the selection scopes are
\* unchanged, and the index it would have got goes to the next open that
\* succeeds.
C21_FailedOpenChangesNothing ==
    [][ /\ (pc = "idle" /\ last'.kw = "open" /\ last'.outcome # "ok")
             => /\ last'.outcome \in {"ValueError", "SaHpiError"}
                /\ UNCHANGED <<cache_connections, cache_aliases,
                               cache_current, active_session, cp_storage>>
        /\ (/\ last.kw = "open" /\ last.outcome # "ok"
            /\ pc = "idle" /\ last'.kw = "open" /\ last'.outcome = "ok")
             => last'.ret = Len(cache_connections) + 1 ]_vars

\* C21 witness: with session 1 open, active and holding a selection, an
\* open failed with the transport error; one connection is registered.
C21_Witness ==
    /\ last.kw = "open" /\ last.outcome = "SaHpiError"
    /\ cache_connections = <<1>> /\ cache_current = 1
    /\ active_session = 1
    /\ 1 \in DOMAIN cp_storage /\ "entity_path" \in DOMAIN cp_storage[1]

\* The least number of poll intervals that cover the timeout.
CeilDiv(a, b) == (a + b - 1) \div b

\* The record of a status wait that entered its loop.
StatusWaitStarted ==
    /\ last.kw \in {"wait_upgrade", "wait_test"}
    /\ last.outcome \in {"running", "ok", "Timeout", "SaHpiError"}

\* What a status wait has done is within the claim: at most
\* ceil(timeout / poll_interval) polls; ended ok exactly when a poll
\* returned the target, which was then the last poll; otherwise ended with
\* the timeout failure or, in strict mode, with the first transport error.
StatusWaitBounded ==
    StatusWaitStarted
        => LET polls == last.ret.polls
               n == Len(polls)
           IN  /\ n <= CeilDiv(timeout, poll_interval)
               /\ last.outcome = "running" <=> pc = "status_loop"
               /\ last.outcome = "ok"
                     <=> \E i \in 1..n : polls[i] = "target"
               /\ \A i \in 1..n : polls[i] = "target" => i = n
               /\ last.outcome = "SaHpiError"
                     => /\ ~last.arg.may_fail
                        /\ n >= 1 /\ polls[n] = "raise"
                        /\ \A i \in 1..(n - 1) : polls[i] # "raise"
               /\ (~last.arg.may_fail /\ \E i \in 1..n : polls[i] = "raise")
                     => last.outcome = "SaHpiError"

\* A poll of a status wait starts before the deadline, and the timeout
\* failure is raised at or after it.
StatusWaitDeadline ==
    /\ (pc = "status_loop" /\ last'.ret # last.ret)
          => now < wait.start_time + timeout
    /\ (pc = "status_loop" /\ last'.outcome = "Timeout")
          => now >= wait.start_time + timeout

\* C22: with a positive poll interval the upgrade-state wait and the
\* test-status wait are bounded retry loops: a wait that entered its loop
\* ends; it makes at most ceil(timeout / poll_interval) polls, each begun
\* before the deadline; it succeeds if and only if one of them returned
\* the target, and otherwise ends with the timeout failure or, in strict
\* mode, with the first transport error.
C22_StatusWaitsAreBounded ==
    /\ []StatusWaitBounded
    /\ [][StatusWaitDeadline]_vars
    /\ (pc = "status_loop") ~> (pc = "idle")

\* C22 witness: a tolerant upgrade-state wait with a timeout of two poll
\* intervals polled twice, another state and a transport error, slept
\* after each and ended with the timeout failure.
C22_Witness ==
    /\ last.kw = "wait_upgrade" /\ last.arg.may_fail
    /\ timeout = 2 * poll_interval
    /\ last.ret = [polls |-> <<"other", "raise">>, sleeps |-> 2]
    /\ last.outcome = "Timeout" /\ pc = "idle"

\* name begins with prefix.
BeginsWith(name, prefix) ==
    Len(name) >= Len(prefix) /\ SubSeq(name, 1, Len(prefix)) = prefix

\* The family of a constant: the longest family prefix its name begins
\* with.
FamilyOf(name) ==
    CHOOSE p \in Prefixes :
        /\ BeginsWith(name, p)
        /\ \A q \in Prefixes : BeginsWith(name, q) => Len(q) <= Len(p)

\* C23: name resolution is confined to the family asked for: whatever the
\* token, a constant it resolves to under a family's prefix is a constant
\* of that family, not of another one.
C23_ResolutionStaysInFamily ==
    (last.kw = "find_attribute" /\ last.outcome = "ok")
        => \A i \in NamedBy(last.arg.prefix, last.arg.attr) :
              last.ret = Sahpi[i].value
                 => FamilyOf(Sahpi[i].name) = last.arg.prefix

\* A call of Set Entity Path that is given a path.
SetEntityPathStep == pc = "idle" /\ last'.kw = "set_entity_path"

\* Every stored key other than the active connection's entity_path is
\* there afterwards with the value it had.
OtherKeysKept ==
    \A h \in DOMAIN cp_storage : \A k \in DOMAIN cp_storage[h] :
        (h # active_session \/ k # "entity_path")
            => /\ h \in DOMAIN cp_storage'
               /\ k \in DOMAIN cp_storage'[h]
               /\ cp_storage'[h][k] = cp_storage[h][k]

\* No key appears other than the active connection's entity_path.
NoOtherKeyAdded ==
    \A h \in DOMAIN cp_storage' : \A k \in DOMAIN cp_storage'[h] :
        \/ h = active_session /\ k = "entity_path"
        \/ h \in DOMAIN cp_storage /\ k \in DOMAIN cp_storage[h]

\* C24: Set Entity Path changes only the entity_path key of the active
\* connection's scope: the record, bank, test and event stored for that
\* connection, and everything stored for the others, stay as they were;
\* a path that parses is stored; a malformed path fails with the
\* invalid-entity-path error and leaves the whole storage unchanged.
C24_SetEntityPathFrame ==
    [][SetEntityPathStep
          => /\ active_session' = active_session
             /\ OtherKeysKept
             /\ NoOtherKeyAdded
             /\ last'.outcome = "ok"
                   => /\ ~FromStringFails(last'.arg)
                      /\ cp_storage'[active_session]["entity_path"] = last'.arg
             /\ FromStringFails(last'.arg)
                   => /\ last'.outcome = "InvalidEntityPath"
                      /\ cp_storage' = cp_storage]_vars

\* A connection holds a record and a bank selected on one resource while
\* its entity path has since been changed to another, and a malformed path
\* has just been refused.
C24_Witness ==
    /\ last.kw = "set_entity_path"
    /\ last.outcome = "InvalidEntityPath"
    /\ active_session \in DOMAIN cp_storage
    /\ {"entity_path", "selected_rdr", "selected_fumi_bank"}
           \subseteq DOMAIN cp_storage[active_session]
    /\ cp_storage[active_session]["selected_fumi_bank"].resource.path
           # cp_storage[active_session]["entity_path"]

====
